---------------------------- MODULE Spec2Model ----------------------------
(***************************************************************************)
(* Verification model of the AcadHack quiz automation engine.              *)
(*                                                                         *)
(*   SpecShell  - app_webview.py: the Api bridge (start / stop / toggle,   *)
(*                launch / close), the solver worker threads it spawns and *)
(*                the heartbeat poll_background_tasks.                     *)
(*   SpecRun    - main.py: one call of                                     *)
(*                AutomationController.run_solver_loop against a page that *)
(*                answers every driver call nondeterministically.          *)
(*   SpecParse  - gemini_solver.py: get_answer's handling of one service   *)
(*                outcome, with _extract_letter computed character by      *)
(*                character.                                               *)
(*   SpecSolver - gemini_solver.py: consecutive get_answer calls against a *)
(*                discrete clock (the rate limiter).                       *)
(*   SpecChoose - main.py lines 347-403: the choice of the option to click *)
(*                on every option mapping and label.                       *)
(*   SpecScrape - scraper.py: scrape_quiz_data and                         *)
(*                _extract_element_content on every page and element.      *)
(*   SpecMath   - scraper.py: parse_math_expressions on every markup of a  *)
(*                few items, and again on the text it returned.            *)
(*   SpecBuild  - gemini_solver.py: _build_contents on every quiz_data of  *)
(*                a few fragments and every insertion order of A and B.    *)
(***************************************************************************)
EXTENDS Integers, Sequences, FiniteSets, TLC

VARIABLES
    \* ---- app_webview.py: Api and its threads
    is_running,        \* Api.is_running
    browser_running,   \* Api.browser_running
    worker_thread,     \* Api.worker_thread: 0 is None, else the worker's id
    stop_event,        \* Api.stop_event: 0 is None, else the Event's id
    events_set,        \* the Event objects whose flag is set
    workers,           \* worker id -> [phase, ev]: the thread and the event its run polls
    n_starts,          \* Thread/Event objects created so far
    driver,            \* AutomationController.driver: "none", "live", "dead"
    stop_target,       \* worker id -> the event a stop set while that worker was the active run
    hb,                \* position of the heartbeat thread in poll_background_tasks
    launchers,         \* ChromeLauncher thread id -> its position in launch_chrome._worker
    n_launches,        \* ChromeLauncher threads created so far
    chromes,           \* browsers the controller created and that have not quit
    \* ---- main.py: one run_solver_loop call
    pc,                \* position of the run in run_solver_loop
    stop_flag,         \* stop_event.is_set() of the run's event
    booster,           \* config.BOOSTER.ENABLED (module state, read live)
    is_booster_enabled,\* local is_booster_enabled: the mode read when the run started
    cfg_timeout,       \* config.DEFAULT_WAIT_TIMEOUT
    original_timeout,  \* local original_timeout
    total_waited,      \* local total_waited
    option_elements,   \* labels of quiz_data["option_elements"], in iteration order
    answer_letter,     \* local answer_letter
    chosen_element,    \* label of the card chosen_element refers to
    popups_left,       \* popups of popup_els not yet visited by the for loop
    outcome,           \* RunOutcome once the run has ended
    last_exc,          \* the exception the run last met: the one it ended on, or the
                       \* staleness it abandoned a cycle on; "" if none
    cycles,            \* cycles begun
    observed,          \* the checkpoint that saw the signal set, "" if none has
    acts_after_observe,\* scrapes, Selector calls and clicks after that
    clicks_after_stop, \* clicks since the signal became set
    action_text,       \* local action_text, classified against the configured labels
    emitted,           \* the log lines the last step put on log_queue
    final_lines,       \* the "Automation loop finished." lines put on log_queue so far
    api_key,           \* config.API_KEY; "" stands for None and the empty string
    cycle_acts,        \* what the current cycle has done so far, in order: its successful
                       \* scrape, its Selector call, its clicks on an option, on the
                       \* action control and on the confirmation
    button_seen,       \* what the Booster waits of the current cycle saw of the action
                       \* control: "" nothing yet, "absent", "disabled" or "enabled"
    handles,           \* the option handles of quiz_data: "none" (quiz_data is None),
                       \* "fresh" from the scrape of this cycle, "stale" once one of
                       \* them raised StaleElementReferenceException
    \* ---- gemini_solver.py
    svc,               \* outcome of the service call under consideration
    raw_text,          \* response.text
    ga_result,         \* what get_answer did: [kind, label]
    now,               \* time.time()
    last_request_time, \* GeminiSolver._last_request_time
    calls,             \* get_answer calls so far: <<[start, issue, ok]>>
    bc_quiz,           \* the quiz_data _build_contents was called on: [question, options]
    bc_contents,       \* the contents it returned; <<"none">> before the call
    \* ---- scraper.py
    sq_page,           \* the page scrape_quiz_data was called on
    sq_result,         \* what scrape_quiz_data did: [exc, option_elements]
    ex_el,             \* the element _extract_element_content was called on
    ex_result,         \* what _extract_element_content did: [exc, parts]
    pm_html,           \* the markup parse_math_expressions was called on
    pm_result,         \* what parse_math_expressions did: [exc, text]
    pm_again           \* what parse_math_expressions did on that text: [exc, text]

shellVars == <<is_running, browser_running, worker_thread, stop_event, events_set,
               workers, n_starts, driver, stop_target, hb, launchers, n_launches,
               chromes>>
launchVars == <<launchers, n_launches, chromes>>
runVars == <<pc, stop_flag, booster, is_booster_enabled, cfg_timeout, original_timeout, total_waited,
             option_elements, answer_letter, chosen_element, popups_left, outcome, last_exc, cycles,
             observed, acts_after_observe, clicks_after_stop, action_text, emitted,
             final_lines, api_key, cycle_acts, button_seen, handles>>
solverVars == <<svc, raw_text, ga_result, now, last_request_time, calls, bc_quiz,
                bc_contents>>
scrapeVars == <<sq_page, sq_result, ex_el, ex_result, pm_html, pm_result, pm_again>>
vars == <<shellVars, runVars, solverVars, scrapeVars>>

-----------------------------------------------------------------------------
(* Bounds of the model *)

MaxRuns == 3

WorkerIds == 1..MaxRuns

MaxLaunches == 2

LauncherIds == 1..MaxLaunches

-----------------------------------------------------------------------------
(* Values the unused parts of the state hold under each specification *)

NoRunYet ==
    /\ is_running = FALSE
    /\ browser_running = FALSE
    /\ worker_thread = 0
    /\ stop_event = 0
    /\ events_set = {}
    /\ workers = [w \in WorkerIds |-> [phase |-> "unborn", ev |-> 0]]
    /\ n_starts = 0
    /\ stop_target = [w \in WorkerIds |-> 0]
    /\ hb = "idle"
    /\ launchers = [l \in LauncherIds |-> "unborn"]
    /\ n_launches = 0

ShellIdle == NoRunYet /\ driver = "none" /\ chromes = 0

RunIdle ==
    /\ pc = "idle"
    /\ stop_flag = FALSE
    /\ booster = FALSE
    /\ is_booster_enabled = FALSE
    /\ cfg_timeout = 0
    /\ original_timeout = 0
    /\ total_waited = 0
    /\ option_elements = <<>>
    /\ answer_letter = ""
    /\ chosen_element = ""
    /\ popups_left = 0
    /\ outcome = ""
    /\ last_exc = ""
    /\ cycles = 0
    /\ observed = ""
    /\ acts_after_observe = 0
    /\ clicks_after_stop = 0
    /\ action_text = ""
    /\ emitted = <<>>
    /\ final_lines = 0
    /\ api_key = ""
    /\ cycle_acts = <<>>
    /\ button_seen = ""
    /\ handles = "none"

BuildIdle ==
    /\ bc_quiz = [question |-> <<>>, options |-> <<>>]
    /\ bc_contents = <<"none">>

SolverIdle ==
    /\ svc = ""
    /\ raw_text = <<>>
    /\ ga_result = [kind |-> "none", label |-> ""]
    /\ now = 0
    /\ last_request_time = 0
    /\ calls = <<>>
    /\ BuildIdle

ScrapeIdle ==
    /\ sq_page = [question |-> "none", q_el |-> "ok", cards |-> <<>>]
    /\ sq_result = [exc |-> "none", option_elements |-> <<>>]
    /\ ex_el = "none"
    /\ ex_result = [exc |-> "none", parts |-> <<>>]
    /\ pm_html = <<>>
    /\ pm_result = [exc |-> "none", text |-> <<>>]
    /\ pm_again = [exc |-> "none", text |-> <<>>]

-----------------------------------------------------------------------------
(* app_webview.py: the Api bridge, its worker threads and the heartbeat *)

\* threading.Thread.is_alive(): started and its target has not returned
IsAlive(w) == workers[w].phase \in {"spawned", "checkpoint", "cycle"}

\* the thread is inside AutomationController.run_solver_loop
InRun(w) == workers[w].phase \in {"checkpoint", "cycle"}

\* Api.start_automation
DoStart ==
    IF is_running
    THEN UNCHANGED <<is_running, worker_thread, stop_event, workers, n_starts>>
    ELSE /\ n_starts < MaxRuns
         /\ n_starts' = n_starts + 1
         /\ stop_event' = n_starts + 1
         /\ worker_thread' = n_starts + 1
         /\ workers' = [workers EXCEPT ![n_starts + 1] = [phase |-> "spawned", ev |-> 0]]
         /\ is_running' = TRUE

\* Api.stop_automation
DoStop ==
    /\ events_set' = IF stop_event # 0 THEN events_set \cup {stop_event} ELSE events_set
    /\ is_running' = FALSE
    /\ stop_target' =
         IF worker_thread # 0 /\ IsAlive(worker_thread) /\ stop_event # 0
         THEN [stop_target EXCEPT ![worker_thread] = stop_event]
         ELSE stop_target

start_automation ==
    /\ DoStart
    /\ UNCHANGED <<browser_running, events_set, driver, stop_target>>
    /\ UNCHANGED <<hb, launchVars, runVars, solverVars, scrapeVars>>

stop_automation ==
    /\ DoStop
    /\ UNCHANGED <<browser_running, worker_thread, stop_event, workers, n_starts, driver>>
    /\ UNCHANGED <<hb, launchVars, runVars, solverVars, scrapeVars>>

\* Api.toggle_automation
toggle_automation ==
    /\ IF ~is_running
       THEN DoStart /\ UNCHANGED <<events_set, stop_target>>
       ELSE DoStop /\ UNCHANGED <<worker_thread, stop_event, workers, n_starts>>
    /\ UNCHANGED <<browser_running, driver>>
    /\ UNCHANGED <<hb, launchVars, runVars, solverVars, scrapeVars>>

\* Api.start_automation._worker: the thread evaluates self.stop_event when it
\* runs, and run_solver_loop returns at once when the driver is None
WorkerBegin(w) ==
    /\ workers[w].phase = "spawned"
    /\ workers' = [workers EXCEPT ![w] =
                     [phase |-> IF driver = "none" THEN "ended" ELSE "checkpoint",
                      ev |-> stop_event]]
    /\ UNCHANGED <<is_running, browser_running, worker_thread, stop_event, events_set,
                   n_starts, driver, stop_target>>
    /\ UNCHANGED <<hb, launchVars, runVars, solverVars, scrapeVars>>

\* run_solver_loop at a cancellation checkpoint (stop_event.is_set())
WorkerCheckpoint(w) ==
    /\ workers[w].phase = "checkpoint"
    /\ workers' = [workers EXCEPT ![w].phase =
                     IF workers[w].ev \in events_set THEN "ended" ELSE "cycle"]
    /\ UNCHANGED <<is_running, browser_running, worker_thread, stop_event, events_set,
                   n_starts, driver, stop_target>>
    /\ UNCHANGED <<hb, launchVars, runVars, solverVars, scrapeVars>>

\* run_solver_loop between two checkpoints: the cycle loops or the run ends by itself
WorkerCycle(w) ==
    /\ workers[w].phase = "cycle"
    /\ \E next \in {"checkpoint", "ended"} :
         workers' = [workers EXCEPT ![w].phase = next]
    /\ UNCHANGED <<is_running, browser_running, worker_thread, stop_event, events_set,
                   n_starts, driver, stop_target>>
    /\ UNCHANGED <<hb, launchVars, runVars, solverVars, scrapeVars>>

\* AutomationController.shutdown
shutdown == IF driver # "none" THEN "none" ELSE driver

\* Api.launch_chrome: the request returns at once when browser_running is
\* set, else it starts a ChromeLauncher thread
launch_chrome ==
    /\ IF browser_running
       THEN UNCHANGED <<launchers, n_launches>>
       ELSE /\ n_launches < MaxLaunches
            /\ n_launches' = n_launches + 1
            /\ launchers' = [launchers EXCEPT ![n_launches + 1] = "spawned"]
    /\ UNCHANGED <<is_running, browser_running, worker_thread, stop_event, events_set,
                   workers, n_starts, driver, stop_target, hb, chromes>>
    /\ UNCHANGED <<runVars, solverVars, scrapeVars>>

\* AutomationController.launch_browser, its first test: a driver already
\* there is reused
LaunchBrowserCheck(l) ==
    /\ launchers[l] = "spawned"
    /\ launchers' = [launchers EXCEPT ![l] = IF driver # "none" THEN "finish" ELSE "create"]
    /\ UNCHANGED <<is_running, browser_running, worker_thread, stop_event, events_set,
                   workers, n_starts, driver, stop_target, hb, n_launches, chromes>>
    /\ UNCHANGED <<runVars, solverVars, scrapeVars>>

\* AutomationController.launch_browser after the test: _create_driver, the
\* navigation, and self.driver = driver when both succeeded; a driver whose
\* navigation failed is quit
LaunchBrowserCreate(l) ==
    /\ launchers[l] = "create"
    /\ launchers' = [launchers EXCEPT ![l] = "finish"]
    /\ \E r \in {"create_fails", "get_fails", "ok"} :
         IF r = "ok"
         THEN driver' = "live" /\ chromes' = chromes + 1
         ELSE UNCHANGED <<driver, chromes>>
    /\ UNCHANGED <<is_running, browser_running, worker_thread, stop_event, events_set,
                   workers, n_starts, stop_target, hb, n_launches>>
    /\ UNCHANGED <<runVars, solverVars, scrapeVars>>

\* launch_chrome._worker after launch_browser returned: browser_running is
\* set from the controller's driver
LaunchFinish(l) ==
    /\ launchers[l] = "finish"
    /\ launchers' = [launchers EXCEPT ![l] = "done"]
    /\ browser_running' = (driver # "none")
    /\ UNCHANGED <<is_running, worker_thread, stop_event, events_set,
                   workers, n_starts, driver, stop_target, hb, n_launches, chromes>>
    /\ UNCHANGED <<runVars, solverVars, scrapeVars>>

\* driver.quit() in shutdown: the browser of a live driver is gone afterwards
Quit == IF driver = "live" THEN chromes - 1 ELSE chromes

\* Api.close_browser
close_browser ==
    /\ driver' = shutdown
    /\ chromes' = Quit
    /\ browser_running' = FALSE
    /\ UNCHANGED <<is_running, worker_thread, stop_event, events_set, workers, n_starts,
                   stop_target, hb, launchers, n_launches>>
    /\ UNCHANGED <<runVars, solverVars, scrapeVars>>

\* the user closes the browser window: the driver's session is gone
ManualClose ==
    /\ driver = "live"
    /\ driver' = "dead"
    /\ chromes' = chromes - 1
    /\ UNCHANGED <<is_running, browser_running, worker_thread, stop_event, events_set,
                   workers, n_starts, stop_target, hb, launchers, n_launches>>
    /\ UNCHANGED <<runVars, solverVars, scrapeVars>>

\* poll_background_tasks, "Solver Thread Death": the test of is_running and of
\* the worker's liveness; the heartbeat runs in its own Timer thread, each
\* Api call in a thread of the window toolkit
HeartbeatCheck ==
    /\ hb = "idle"
    /\ hb' = IF is_running /\ (worker_thread = 0 \/ ~IsAlive(worker_thread))
             THEN "reset" ELSE "browser"
    /\ UNCHANGED <<is_running, browser_running, worker_thread, stop_event, events_set,
                   workers, n_starts, driver, stop_target>>
    /\ UNCHANGED <<launchVars, runVars, solverVars, scrapeVars>>

\* poll_background_tasks: the assignment api.is_running = False that follows
\* the test and its print()
HeartbeatReset ==
    /\ hb = "reset"
    /\ hb' = "browser"
    /\ is_running' = FALSE
    /\ UNCHANGED <<browser_running, worker_thread, stop_event, events_set,
                   workers, n_starts, driver, stop_target>>
    /\ UNCHANGED <<launchVars, runVars, solverVars, scrapeVars>>

\* the heartbeat reads driver.title
Probes == browser_running /\ driver # "none"

\* poll_background_tasks, "Manual Browser Closure": the probe of the driver
\* and the cleanup when it does not answer
HeartbeatBrowser ==
    /\ hb = "browser"
    /\ hb' = "idle"
    /\ IF browser_running /\ driver # "live"
       THEN /\ browser_running' = FALSE
            /\ driver' = shutdown
       ELSE UNCHANGED <<browser_running, driver>>
    /\ chromes' = IF browser_running /\ driver # "live" THEN Quit ELSE chromes
    /\ UNCHANGED <<is_running, worker_thread, stop_event, events_set, workers, n_starts,
                   stop_target, launchers, n_launches>>
    /\ UNCHANGED <<runVars, solverVars, scrapeVars>>

\* poll_background_tasks: one heartbeat is the three steps in turn
poll_background_tasks ==
    \/ HeartbeatCheck
    \/ HeartbeatReset
    \/ HeartbeatBrowser

InitShell == ShellIdle /\ RunIdle /\ SolverIdle /\ ScrapeIdle

NextShell ==
    \/ start_automation
    \/ stop_automation
    \/ toggle_automation
    \/ \E w \in WorkerIds : WorkerBegin(w)
    \/ \E w \in WorkerIds : WorkerCheckpoint(w)
    \/ \E w \in WorkerIds : WorkerCycle(w)
    \/ launch_chrome
    \/ \E l \in LauncherIds : LaunchBrowserCheck(l)
    \/ \E l \in LauncherIds : LaunchBrowserCreate(l)
    \/ \E l \in LauncherIds : LaunchFinish(l)
    \/ close_browser
    \/ ManualClose
    \/ poll_background_tasks

SpecShell == InitShell /\ [][NextShell]_vars

\* the Timer re-arms itself at the end of every heartbeat: it keeps ticking
FairSpecShell == SpecShell /\ WF_vars(poll_background_tasks)

-----------------------------------------------------------------------------
(* gemini_solver.py: response parsing *)

Alphabet == {"A", "B", "C", "D"}

\* characters a response is built from: alphabet letters, a lower-case alphabet
\* letter, a letter outside the alphabet, white space and punctuation
Chars == {"A", "B", "C", "D", "b", "x", " ", "."}

MaxLen == 4

RECURSIVE SeqsUpTo(_)
SeqsUpTo(n) ==
    IF n = 0 THEN {<<>>}
    ELSE LET shorter == SeqsUpTo(n - 1)
         IN shorter \cup {Append(s, c) : s \in {t \in shorter : Len(t) = n - 1}, c \in Chars}

Texts == SeqsUpTo(MaxLen)

\* the response of spec scenario A, "  b \n"
ScenarioAText == <<" ", " ", "b", " ", "\n">>

\* str.isspace
IsSpace(c) == c \in {" ", "\n"}

\* the regular expression class \w
IsWordChar(c) == c \in {"A", "B", "C", "D", "b", "x", "X"}

\* str.upper on one character
UpperChar(c) == IF c = "b" THEN "B" ELSE IF c = "x" THEN "X" ELSE c

Upper(s) == [i \in 1..Len(s) |-> UpperChar(s[i])]

\* str.strip
RECURSIVE LStrip(_)
LStrip(s) == IF s # <<>> /\ IsSpace(Head(s)) THEN LStrip(Tail(s)) ELSE s

RECURSIVE RStrip(_)
RStrip(s) ==
    IF s # <<>> /\ IsSpace(s[Len(s)]) THEN RStrip(SubSeq(s, 1, Len(s) - 1)) ELSE s

Strip(s) == RStrip(LStrip(s))

\* the regular expression assertion \b between raw[i-1] and raw[i]
WordBoundary(raw, i) ==
    LET before == i > 1 /\ IsWordChar(raw[i - 1])
        after == i <= Len(raw) /\ IsWordChar(raw[i])
    IN before # after

\* re.search(r"\b([ABCD])\b", raw): index of the leftmost match from i on, 0 if none
RECURSIVE RegexSearch(_, _)
RegexSearch(raw, i) ==
    IF i > Len(raw) THEN 0
    ELSE IF raw[i] \in Alphabet /\ WordBoundary(raw, i) /\ WordBoundary(raw, i + 1)
         THEN i
         ELSE RegexSearch(raw, i + 1)

\* for ch in raw: if ch in "ABCD": return ch   (0 when the loop ends)
RECURSIVE FirstLetterScan(_, _)
FirstLetterScan(raw, i) ==
    IF i > Len(raw) THEN 0
    ELSE IF raw[i] \in Alphabet THEN i ELSE FirstLetterScan(raw, i + 1)

\* _extract_letter without its last return: nothing suitable found, nothing returned
_extract_letter_no_default(text) ==
    IF text = <<>> THEN "A"
    ELSE LET raw == Upper(Strip(text))
             m == RegexSearch(raw, 1)
             f == FirstLetterScan(raw, 1)
         IN IF m # 0 THEN raw[m]
            ELSE IF f # 0 THEN raw[f]
            ELSE ""

\* _extract_letter without the search for a standalone token
_extract_letter_scan_only(text) ==
    IF text = <<>> THEN "A"
    ELSE LET raw == Upper(Strip(text))
             f == FirstLetterScan(raw, 1)
         IN IF f # 0 THEN raw[f] ELSE "A"

\* GeminiSolver._extract_letter
_extract_letter(text) ==
    IF text = <<>> THEN "A"
    ELSE LET raw == Upper(Strip(text))
             m == RegexSearch(raw, 1)
             f == FirstLetterScan(raw, 1)
         IN IF m # 0 THEN raw[m]
            ELSE IF f # 0 THEN raw[f]
            ELSE "A"

\* what the service does with one request: generate_content raises, it returns a
\* response whose text property raises, or it returns a response with a text
SvcOutcomes == {"call_raises", "text_raises", "ok"}

\* GeminiSolver.get_answer after the rate limiter: the try / except / else
get_answer(o, text) ==
    IF o = "call_raises" THEN [kind |-> "return", label |-> "A"]
    ELSE IF o = "text_raises" THEN [kind |-> "raise", label |-> ""]
    ELSE [kind |-> "return", label |-> _extract_letter(text)]

InitParse ==
    /\ ShellIdle /\ RunIdle /\ ScrapeIdle
    /\ svc \in SvcOutcomes
    /\ raw_text \in IF svc = "ok" THEN Texts \cup {ScenarioAText} ELSE {<<>>}
    /\ ga_result = [kind |-> "none", label |-> ""]
    /\ now = 0
    /\ last_request_time = 0
    /\ calls = <<>>
    /\ BuildIdle

\* one get_answer call on the service outcome drawn
GetAnswerStep ==
    /\ ga_result.kind = "none"
    /\ ga_result' = get_answer(svc, raw_text)
    /\ UNCHANGED <<svc, raw_text, now, last_request_time, calls, bc_quiz, bc_contents>>
    /\ UNCHANGED <<shellVars, runVars, scrapeVars>>

NextParse == GetAnswerStep

SpecParse == InitParse /\ [][NextParse]_vars

-----------------------------------------------------------------------------
(* gemini_solver.py: the rate limiter *)

RateLimitInterval == 2

MaxTime == 8

MaxCalls == 3

\* responses the clocked specifications draw from
SampleTexts == {t \in Texts : Len(t) <= 1}

\* GeminiSolver._enforce_rate_limit: the time at which it returns when called at t
_enforce_rate_limit(t, last) ==
    LET elapsed == t - last
        remaining == RateLimitInterval - elapsed
    IN IF remaining > 0 THEN t + remaining ELSE t

\* GeminiSolver.get_answer: _last_request_time is assigned in the else branch only
LastRequestAfter(o, last, returned_at) ==
    IF o = "call_raises" THEN last ELSE returned_at

\* one whole get_answer call; the service takes d to answer
GetAnswerCall ==
    /\ Len(calls) < MaxCalls
    /\ \E o \in SvcOutcomes, d \in {0, 1}, t \in SampleTexts :
         LET issue == _enforce_rate_limit(now, last_request_time)
             returned_at == issue + d
         IN /\ returned_at <= MaxTime
            /\ now' = returned_at
            /\ last_request_time' = LastRequestAfter(o, last_request_time, returned_at)
            /\ calls' = Append(calls, [start |-> now, issue |-> issue,
                                       ok |-> o # "call_raises"])
            /\ svc' = o
            /\ raw_text' = IF o = "ok" THEN t ELSE <<>>
            /\ ga_result' = get_answer(o, raw_text')
    /\ UNCHANGED <<bc_quiz, bc_contents>>
    /\ UNCHANGED <<shellVars, runVars, scrapeVars>>

\* time passes between two calls (the rest of the cycle)
Tick ==
    /\ now < MaxTime
    /\ now' = now + 1
    /\ UNCHANGED <<svc, raw_text, ga_result, last_request_time, calls, bc_quiz,
                   bc_contents>>
    /\ UNCHANGED <<shellVars, runVars, scrapeVars>>

\* GeminiSolver.__init__: _last_request_time = 0.0, while time.time() is far
\* beyond one interval
InitSolver ==
    /\ ShellIdle /\ RunIdle /\ ScrapeIdle
    /\ svc = ""
    /\ raw_text = <<>>
    /\ ga_result = [kind |-> "none", label |-> ""]
    /\ now = RateLimitInterval
    /\ last_request_time = 0
    /\ calls = <<>>
    /\ BuildIdle

NextSolver == GetAnswerCall \/ Tick

SpecSolver == InitSolver /\ [][NextSolver]_vars

-----------------------------------------------------------------------------
(* scraper.py: what scrape_quiz_data and _extract_element_content do on a    *)
(* page                                                                      *)

MaxCards == 2

SUPPORTED_OPTION_LABELS == {"A", "B", "C", "D"}

\* the states an element can be in when its content is extracted: "ok" has
\* text and one displayed image, "blank" has neither, "HtmlError" fails the
\* markup-aware extraction only, "ImgError" fails the image search only, and
\* every read of a "Stale" element raises
Elements == {"ok", "blank", "HtmlError", "ImgError", "Stale"}

\* element.get_attribute("innerHTML") and parse_math_expressions: the exception raised
InnerHTML(el) ==
    IF el = "Stale" THEN "Stale" ELSE IF el = "HtmlError" THEN "WebDriver" ELSE ""

\* element.text: the exception raised
RenderedText(el) == IF el = "Stale" THEN "Stale" ELSE ""

\* element.find_elements(By.TAG_NAME, "img"): the exception raised
FindImages(el) ==
    IF el = "Stale" THEN "Stale" ELSE IF el = "ImgError" THEN "WebDriver" ELSE ""

\* if text: content_parts.append(text)
TextParts(el) == IF el = "blank" THEN <<>> ELSE <<"text">>

\* the displayed images of the element
ImageParts(el) == IF el \in {"ok", "HtmlError"} THEN <<"image">> ELSE <<>>

\* _extract_element_content: the exception it lets through ("" for none) and
\* the parts it returns; the except branch of the text step reads
\* element.text with no handler around it, the image step drops every exception
_extract_element_content(el) ==
    LET text_exc == IF InnerHTML(el) = "" THEN "" ELSE RenderedText(el)
    IN IF text_exc # "" THEN [exc |-> text_exc, parts |-> <<>>]
       ELSE [exc |-> "",
             parts |-> TextParts(el)
                          \o (IF FindImages(el) = "" THEN ImageParts(el) ELSE <<>>)]

\* an option card: whether its label element is found, the text of the label
\* and the state of its content element
CardKinds ==
    {[find |-> "ok", label |-> l, el |-> "ok"] :
        l \in {<<"A">>, <<"b">>, <<" ", "C">>, <<"x">>}}
        \cup {[find |-> "NoSuchElement", label |-> <<>>, el |-> "ok"],
              [find |-> "ok", label |-> <<"C">>, el |-> "Stale"],
              [find |-> "ok", label |-> <<"D">>, el |-> "HtmlError"]}

RECURSIVE CardSeqs(_)
CardSeqs(n) ==
    IF n = 0 THEN {<<>>}
    ELSE LET shorter == CardSeqs(n - 1)
         IN shorter \cup {Append(s, c) : s \in {t \in shorter : Len(t) = n - 1},
                                         c \in CardKinds}

\* the pages a scrape can meet: the wait for the question ends with the
\* question visible or with an exception; an empty card list is a page whose
\* option cards never come
Pages ==
    {[question |-> q, q_el |-> "ok", cards |-> <<>>] : q \in {"Timeout", "Disconnected"}}
        \cup {[question |-> "visible", q_el |-> e, cards |-> cs] :
                 e \in {"ok", "HtmlError", "Stale"}, cs \in CardSeqs(MaxCards)}

\* (label_el.text or "").strip().upper()
NormLabel(text) == Upper(Strip(text))

\* dict insertion: a key already present keeps its place
DictPut(keys, k) ==
    IF \E i \in 1..Len(keys) : keys[i] = k THEN keys ELSE Append(keys, k)

\* the for loop over option_cards
RECURSIVE ScanCards(_, _, _)
ScanCards(cards, i, keys) ==
    IF i > Len(cards) THEN [exc |-> "", option_elements |-> keys]
    ELSE LET card == cards[i]
             label == NormLabel(card.label)
         IN IF \/ card.find # "ok"
               \/ Len(label) # 1
               \/ label[1] \notin SUPPORTED_OPTION_LABELS
            THEN ScanCards(cards, i + 1, keys)
            ELSE IF _extract_element_content(card.el).exc # ""
                 THEN [exc |-> _extract_element_content(card.el).exc,
                       option_elements |-> <<>>]
                 ELSE ScanCards(cards, i + 1, DictPut(keys, label[1]))

\* a scrape that returns whatever mapping the loop built
CheckOptionsAccepts(r) == r

\* lines 131-132: if not options_data: raise RuntimeError
CheckOptions(r) ==
    IF r.exc = "" /\ r.option_elements = <<>>
    THEN [exc |-> "RuntimeError", option_elements |-> <<>>]
    ELSE r

\* scrape_quiz_data: the exception it raises ("" for none) and the keys of
\* option_elements
scrape_quiz_data(page) ==
    IF page.question # "visible" THEN [exc |-> page.question, option_elements |-> <<>>]
    ELSE IF _extract_element_content(page.q_el).exc # ""
         THEN [exc |-> _extract_element_content(page.q_el).exc, option_elements |-> <<>>]
    ELSE IF page.cards = <<>> THEN [exc |-> "Timeout", option_elements |-> <<>>]
    ELSE CheckOptions(ScanCards(page.cards, 1, <<>>))

\* one scrape_quiz_data call on the page drawn
ScrapeStep ==
    /\ \E page \in Pages :
         /\ sq_page' = page
         /\ sq_result' = scrape_quiz_data(page)
    /\ UNCHANGED <<ex_el, ex_result, pm_html, pm_result, pm_again>>
    /\ UNCHANGED <<shellVars, runVars, solverVars>>

\* one _extract_element_content call on the element drawn
ExtractStep ==
    /\ \E el \in Elements :
         /\ ex_el' = el
         /\ ex_result' = _extract_element_content(el)
    /\ UNCHANGED <<sq_page, sq_result, pm_html, pm_result, pm_again>>
    /\ UNCHANGED <<shellVars, runVars, solverVars>>

InitScrape == ShellIdle /\ RunIdle /\ SolverIdle /\ ScrapeIdle

NextScrape ==
    \/ ScrapeStep
    \/ ExtractStep

SpecScrape == InitScrape /\ [][NextScrape]_vars

-----------------------------------------------------------------------------
(* gemini_solver.py: _build_contents. A fragment is a text, a sequence of    *)
(* characters, or the bytes of a PNG image; the options are the items of the *)
(* mapping in insertion order.                                               *)

MaxFrags == 2

\* the fragments of a content list: an empty text, a text with white space
\* before it, an image
Fragments ==
    {[kind |-> "str", val |-> <<>>],
     [kind |-> "str", val |-> <<" ", "x">>],
     [kind |-> "bytes", val |-> <<"png">>]}

\* the content lists of up to n fragments
RECURSIVE FragmentSeqs(_)
FragmentSeqs(n) ==
    IF n = 0 THEN {<<>>}
    ELSE LET shorter == FragmentSeqs(n - 1)
         IN shorter \cup {Append(fs, f) : fs \in shorter, f \in Fragments}

\* the option mappings: the insertion orders of the labels A and B
OptionOrders == {<<>>, <<"A">>, <<"B">>, <<"A", "B">>, <<"B", "A">>}

QuizData ==
    {[question |-> q, options |-> os] :
        q \in FragmentSeqs(MaxFrags),
        os \in UNION {{[i \in 1..Len(ord) |-> [label |-> ord[i], value |-> vs[i]]] :
                          vs \in [1..Len(ord) -> FragmentSeqs(MaxFrags)]} :
                         ord \in OptionOrders}}

\* the opening and the closing instruction
Opening ==
    [part |-> "str",
     val |-> <<"You will receive one question and several answer options. ",
               "Identify the single best answer and respond ONLY with its letter.">>]
Closing ==
    [part |-> "str",
     val |-> <<"Final answer: respond with exactly one capital letter: A, B, C, or D.">>]

\* f"{label}:"
LabelPart(label) == [part |-> "str", val |-> <<label, ":">>]

\* lines 75-85: the parts one item gives: an image becomes a PNG blob, a text
\* is stripped and kept unless nothing is left
RECURSIVE ItemParts(_)
ItemParts(items) ==
    IF items = <<>> THEN <<>>
    ELSE LET item == Head(items)
         IN (IF item.kind = "bytes"
             THEN <<[part |-> "blob", mime_type |-> "image/png", data |-> item.val]>>
             ELSE IF Strip(item.val) # <<>>
                  THEN <<[part |-> "str", val |-> Strip(item.val)]>>
                  ELSE <<>>)
            \o ItemParts(Tail(items))

\* GeminiSolver._content_part_from_value
_content_part_from_value(value, label) == <<LabelPart(label)>> \o ItemParts(value)

\* a loop over the options in the order of the mapping
InsertionOrder(labels) == labels

\* sorted(options.keys()) over the labels A to D
sorted(labels) ==
    LET Pick(l) == IF \E i \in 1..Len(labels) : labels[i] = l THEN <<l>> ELSE <<>>
    IN Pick("A") \o Pick("B") \o Pick("C") \o Pick("D")

\* options[label]
ValueOf(options, label) ==
    options[CHOOSE i \in 1..Len(options) : options[i].label = label].value

\* lines 103-109: the parts of the options, label by label
RECURSIVE OptionParts(_, _)
OptionParts(options, labels) ==
    IF labels = <<>> THEN <<>>
    ELSE _content_part_from_value(ValueOf(options, Head(labels)), <<"Option ", Head(labels)>>)
            \o OptionParts(options, Tail(labels))

\* GeminiSolver._build_contents
_build_contents(quiz_data) ==
    <<Opening>>
        \o _content_part_from_value(quiz_data.question, <<"Question">>)
        \o OptionParts(quiz_data.options,
                       sorted([i \in 1..Len(quiz_data.options) |-> quiz_data.options[i].label]))
        \o <<Closing>>

\* one _build_contents call on the quiz_data drawn
BuildContents ==
    /\ bc_contents = <<"none">>
    /\ bc_contents' = _build_contents(bc_quiz)
    /\ UNCHANGED <<svc, raw_text, ga_result, now, last_request_time, calls, bc_quiz>>
    /\ UNCHANGED <<shellVars, runVars, scrapeVars>>

InitBuild ==
    /\ ShellIdle /\ RunIdle /\ ScrapeIdle
    /\ svc = ""
    /\ raw_text = <<>>
    /\ ga_result = [kind |-> "none", label |-> ""]
    /\ now = 0
    /\ last_request_time = 0
    /\ calls = <<>>
    /\ bc_quiz \in QuizData
    /\ bc_contents = <<"none">>

NextBuild == BuildContents

SpecBuild == InitBuild /\ [][NextBuild]_vars

-----------------------------------------------------------------------------
(* scraper.py: parse_math_expressions. Markup and text are sequences of     *)
(* tokens: a character, a tag, or the escaped form of a tag, which the      *)
(* parser decodes to the characters of that tag.                            *)

MaxItems == 3

\* the characters of the text
TextChars == {"x", "2", "H", "O", " "}

\* what the parser makes of a token that is not a tag: the text it stands for
Decode(tok) == IF tok = "&lt;sup&gt;" THEN "<sup>" ELSE tok

\* the items of an element's innerHTML: a character, an escaped tag, or a
\* sup or sub element around at most one character
Items ==
    {<<c>> : c \in TextChars \cup {"&lt;sup&gt;"}}
        \cup {<<"<sup>">> \o inner \o <<"</sup>">> : inner \in {<<>>, <<"2">>, <<"x">>}}
        \cup {<<"<sub>">> \o inner \o <<"</sub>">> : inner \in {<<>>, <<"2">>, <<"x">>}}

\* the innerHTML of an element: up to n items in a row
RECURSIVE MarkupUpTo(_)
MarkupUpTo(n) ==
    IF n = 0 THEN {<<>>}
    ELSE LET shorter == MarkupUpTo(n - 1)
         IN shorter \cup {m \o it : m \in shorter, it \in Items}

MarkupInputs == MarkupUpTo(MaxItems)

\* the tag an opening or closing tag token names, "" for any other token
OpenTag(tok) == IF tok = "<sup>" THEN "sup" ELSE IF tok = "<sub>" THEN "sub" ELSE ""
CloseTag(tok) == IF tok = "</sup>" THEN "sup" ELSE IF tok = "</sub>" THEN "sub" ELSE ""

\* the prefix the rewriting puts before the text of a sup or sub element
Prefix(tag) == IF tag = "sup" THEN "^" ELSE "_"

\* the NavigableString an element leaves in its parent when the text cur ends:
\* a sup or sub element is replaced by one string, its prefix and its text
\* (lines 29-36: tag.string = ..., tag.unwrap()); a run of top-level text is
\* one string, and an empty run is none
EndData(strings, open, cur) ==
    IF open # "" THEN Append(strings, <<Prefix(open)>> \o cur)
    ELSE IF cur = <<>> THEN strings
    ELSE Append(strings, cur)

\* BeautifulSoup(html_content, "html.parser") followed by the two rewriting
\* loops: the strings of the tree in document order, or "ValueError" when a
\* sup lies inside a sup or a sub inside a sub (the inner tag is detached by
\* the rewriting of the outer one and cannot be unwrapped). A sub inside a
\* sup is dropped with its parent's children, a sup inside a sub has been
\* rewritten before the sub is, an end tag with no open element to match
\* ends the current string, and an element still open at the end is closed
\* there. Markup is nested no deeper than two elements.
RECURSIVE SoupStrings(_, _, _, _, _)
SoupStrings(toks, i, open, cur, strings) ==
    IF i > Len(toks) THEN [exc |-> "", strings |-> EndData(strings, open, cur)]
    ELSE LET tok == toks[i]
         IN IF OpenTag(tok) # ""
            THEN IF open = "" THEN SoupStrings(toks, i + 1, OpenTag(tok), <<>>,
                                               EndData(strings, "", cur))
                 ELSE IF open = OpenTag(tok) THEN [exc |-> "ValueError", strings |-> <<>>]
                 ELSE IF open = "sub"
                      THEN SoupStrings(toks, i + 1, open, Append(cur, "^"), strings)
                      ELSE SoupStrings(toks, i + 1, open, cur, strings)
            ELSE IF CloseTag(tok) # ""
            THEN IF open = CloseTag(tok)
                 THEN SoupStrings(toks, i + 1, "", <<>>, EndData(strings, open, cur))
                 ELSE IF open = ""
                      THEN SoupStrings(toks, i + 1, "", <<>>, EndData(strings, "", cur))
                      ELSE SoupStrings(toks, i + 1, open, cur, strings)
            ELSE SoupStrings(toks, i + 1, open, Append(cur, Decode(tok)), strings)

\* line 39: soup.get_text(separator=" "), the strings joined by one space
RECURSIVE GetText(_)
GetText(strings) ==
    IF strings = <<>> THEN <<>>
    ELSE IF Len(strings) = 1 THEN Head(strings)
    ELSE Head(strings) \o <<" ">> \o GetText(Tail(strings))

\* line 42: " ".join(text_content.split()), word by word: gap tells that
\* white space lies between the last word of out and the rest of text
RECURSIVE SplitJoin(_, _, _)
SplitJoin(text, out, gap) ==
    IF text = <<>> THEN out
    ELSE IF Head(text) = " " THEN SplitJoin(Tail(text), out, TRUE)
    ELSE IF out # <<>> /\ gap
         THEN SplitJoin(Tail(text), out \o <<" ", Head(text)>>, FALSE)
         ELSE SplitJoin(Tail(text), Append(out, Head(text)), FALSE)

\* parse_math_expressions: the exception it raises ("" for none) and the
\* text it returns
parse_math_expressions(html_content) ==
    IF html_content = <<>> THEN [exc |-> "", text |-> <<>>]
    ELSE LET soup == SoupStrings(html_content, 1, "", <<>>, <<>>)
         IN IF soup.exc # "" THEN [exc |-> soup.exc, text |-> <<>>]
            ELSE [exc |-> "", text |-> SplitJoin(GetText(soup.strings), <<>>, FALSE)]

\* one parse_math_expressions call on the markup drawn, and one on the text
\* it returned
ParseMath ==
    /\ pm_result.exc = "none"
    /\ pm_result' = parse_math_expressions(pm_html)
    /\ pm_again' = IF pm_result'.exc = "" THEN parse_math_expressions(pm_result'.text)
                   ELSE pm_again
    /\ UNCHANGED <<pm_html, sq_page, sq_result, ex_el, ex_result>>
    /\ UNCHANGED <<shellVars, runVars, solverVars>>

InitMath ==
    /\ ShellIdle /\ RunIdle /\ SolverIdle
    /\ sq_page = [question |-> "none", q_el |-> "ok", cards |-> <<>>]
    /\ sq_result = [exc |-> "none", option_elements |-> <<>>]
    /\ ex_el = "none"
    /\ ex_result = [exc |-> "none", parts |-> <<>>]
    /\ pm_html \in MarkupInputs
    /\ pm_result = [exc |-> "none", text |-> <<>>]
    /\ pm_again = [exc |-> "none", text |-> <<>>]

NextMath == ParseMath

SpecMath == InitMath /\ [][NextMath]_vars

-----------------------------------------------------------------------------
(* main.py: AutomationController.run_solver_loop *)

\* the modelled value of config.DEFAULT_WAIT_TIMEOUT
MaxWait == 2

MaxCycles == 2

MaxPopups == 2

PerAttemptTimeout == 1

\* selenium.common.exceptions: subclasses of WebDriverException
IsWebDriverException(e) == e \in {"Timeout", "Stale", "Disconnected", "WebDriver"}

\* "disconnected" in str(e).lower() or "no such window" in str(e).lower()
IsDisconnection(e) == e = "Disconnected"

\* the run polls an event other than the one the shell sets
IsSetOtherEvent == FALSE

\* stop_event.is_set()
IsSet == stop_flag

\* a staleness restart that scrapes again at once
RestartAtScrape == "scrape"

\* a restart that waits on the chosen handle again
RestartAtWait == "wait_clickable"

\* continue (lines 380 and 394): the statement a staleness restart resumes at
RestartTarget == "loop_top"

\* the last line of every exit taken inside the outer try
Finished == "INFO Automation loop finished."

envVars == <<stop_flag, booster, is_booster_enabled>>
waitVars == <<cfg_timeout, original_timeout, total_waited>>
cycleVars == <<option_elements, answer_letter, chosen_element, action_text, popups_left>>

\* the number of lines of lines that are line
CountLine(lines, line) == Cardinality({i \in 1..Len(lines) : lines[i] = line})

\* log_queue.put of each line of lines
Put(lines) ==
    /\ emitted' = lines
    /\ final_lines' = final_lines + CountLine(lines, Finished)

\* the steps of one cycle that are kept: one more than a cycle can take
MaxActs == 6

\* the clicks: on an option card, on the action control, on the YES of the
\* confirmation, and "click" on a popup's or the completion screen's control
IsClick(act) == act \in {"option_click", "action_click", "confirm_click", "click"}

\* the steps of a cycle: "scraped" is a scrape that returned its data,
\* "scrape" one that raised
IsCycleStep(act) ==
    act \in {"scraped", "solve", "option_click", "action_click", "confirm_click"}

\* bookkeeping of what the step did: act is a click, "scrape", "scraped",
\* "solve", "begin" (a new cycle begins, quiz_data = None), "stale" (an option
\* handle raised StaleElementReferenceException), what a Booster wait saw of
\* the action control, or "none"
Hist(act) ==
    /\ acts_after_observe' =
         IF observed # "" /\ (IsClick(act) \/ act \in {"scrape", "scraped", "solve"})
         THEN acts_after_observe + 1 ELSE acts_after_observe
    /\ clicks_after_stop' =
         IF stop_flag /\ IsClick(act) THEN clicks_after_stop + 1 ELSE clicks_after_stop
    /\ cycle_acts' =
         IF act = "begin" THEN <<>>
         ELSE IF IsCycleStep(act) /\ Len(cycle_acts) < MaxActs
              THEN Append(cycle_acts, act)
         ELSE cycle_acts
    /\ button_seen' =
         IF act = "begin" THEN ""
         ELSE IF act = "button_absent" THEN "absent"
         ELSE IF act = "button_disabled" THEN "disabled"
         ELSE IF act = "button_enabled" THEN "enabled"
         ELSE button_seen
    /\ handles' =
         IF act = "begin" THEN "none"
         ELSE IF act = "scraped" THEN "fresh"
         ELSE IF act = "stale" THEN "stale"
         ELSE handles
    /\ UNCHANGED api_key

\* the run moves on to statement to
Step(to, act, lines) ==
    /\ pc' = to
    /\ Put(lines)
    /\ Hist(act)
    /\ UNCHANGED <<outcome, observed>>
    /\ UNCHANGED <<shellVars, solverVars, scrapeVars>>

Goto(to, act, lines) == Step(to, act, lines) /\ UNCHANGED last_exc

\* the run ends: out is the RunOutcome its last lines stand for
End(out, exc, act, lines) ==
    /\ pc' = "done"
    /\ outcome' = out
    /\ last_exc' = exc
    /\ Put(lines)
    /\ Hist(act)
    /\ UNCHANGED observed
    /\ UNCHANGED <<shellVars, solverVars, scrapeVars>>

\* the run ends at a checkpoint that found the signal set
EndStopped(site, lines) ==
    /\ pc' = "done"
    /\ outcome' = "StoppedByUser"
    /\ last_exc' = ""
    /\ Put(lines)
    /\ observed' = site
    /\ UNCHANGED <<acts_after_observe, clicks_after_stop, api_key, cycle_acts,
                   button_seen, handles>>
    /\ UNCHANGED <<shellVars, solverVars, scrapeVars>>

\* lines 376-380 and 390-394: StaleElementReferenceException on the chosen
\* option is logged and the cycle is abandoned by continue
Restart(lines) == Step(RestartTarget, "stale", lines) /\ last_exc' = "Stale"

\* the values of config.API_KEY
ApiKeys == {"", "YOUR_API_KEY_HERE", "key"}

\* line 174: not API_KEY or API_KEY == "YOUR_API_KEY_HERE"
ApiKeyUnset(k) == k = "" \/ k = "YOUR_API_KEY_HERE"

\* a driver check that lets every driver through
DriverMissingNever(d) == FALSE

\* line 181: self.driver is None
DriverMissing(d) == d = "none"

\* lines 173-186: the two precondition checks, in their order
Precondition(k, d) ==
    IF ApiKeyUnset(k) THEN "no_key"
    ELSE IF DriverMissing(d) THEN "no_driver"
    ELSE "ok"

\* lines 173-214: the precondition checks, the solver and the wait object
RunStart ==
    /\ pc = "start"
    /\ \E init \in {"init_fails", "ok"} :
         LET pre == IF Precondition(api_key, driver) # "ok"
                    THEN Precondition(api_key, driver) ELSE init
         IN
         IF pre = "no_key" THEN End("Failed", "", "none", <<"ERROR API key is not set">>)
         ELSE IF pre = "no_driver"
              THEN End("Failed", "", "none", <<"ERROR Browser has not been launched">>)
         ELSE IF pre = "init_fails"
              THEN End("Failed", "Init", "none",
                       <<"ERROR Failed to initialize GeminiSolver", Finished>>)
         ELSE Goto("loop_top", "none",
                   <<"INFO Connected to existing Chrome WebDriver.",
                     "INFO Make sure the quiz page is open and a quiz is active.",
                     "INFO Automation loop started. Use the GUI to stop it.",
                     "DEBUG Config State">>
                       \o (IF booster THEN <<"DEBUG Booster Selectors">> ELSE <<>>))
    /\ is_booster_enabled' = IF pc' = "done" THEN is_booster_enabled ELSE booster
    /\ UNCHANGED <<stop_flag, booster, waitVars, cycleVars, cycles>>

\* lines 217-241: the early stop check, then the set-up of the wait phase
LoopTop ==
    /\ pc = "loop_top"
    /\ IF IsSet
       THEN /\ EndStopped("loop_top", <<"INFO Stop signal received before scraping", Finished>>)
            /\ UNCHANGED <<waitVars, cycleVars, cycles>>
       ELSE /\ cycles < MaxCycles
            /\ cycles' = cycles + 1
            /\ original_timeout' = cfg_timeout
            /\ cfg_timeout' = PerAttemptTimeout
            /\ total_waited' = 0
            /\ option_elements' = <<>>
            \* the other locals of the last cycle are dead until assigned again
            /\ answer_letter' = ""
            /\ chosen_element' = ""
            /\ action_text' = ""
            /\ popups_left' = 0
            /\ Step("slice_top", "begin", <<>>)
            /\ last_exc' = ""
    /\ UNCHANGED envVars

\* a wait phase with no finally
NoRestore == UNCHANGED waitVars

\* lines 321-326: the finally of the wait phase
RestoreTimeout ==
    /\ cfg_timeout' = original_timeout
    /\ UNCHANGED <<original_timeout, total_waited>>

\* lines 329-332: the line of the exhausted wait budget
BudgetExhausted == "ERROR Timed out waiting for question/options."

\* the statements of the wait phase (lines 243-320)
WaitPhase == {"slice_top", "finished_check", "popup_check", "popup_visit", "scrape"}

\* lines 243-249 and 328-333: the while condition, then the stop check of the slice
SliceTop ==
    /\ pc = "slice_top"
    /\ IF ~(total_waited < original_timeout)
       THEN End("Failed", "", "none", <<BudgetExhausted, Finished>>)
       ELSE IF IsSet
            THEN EndStopped("slice_top", <<"INFO Stop signal received while waiting", Finished>>)
            ELSE Goto("finished_check", "none", <<>>)
    /\ IF pc' = "done" THEN RestoreTimeout ELSE UNCHANGED waitVars
    /\ UNCHANGED <<envVars, cycleVars, cycles>>

\* the first line of the completion-screen branch (line 256)
BoosterFinished == "INFO Booster Quiz Finished (Completion screen detected)."

\* a completion-screen branch with no handler of its own around the closing click
CloseHandlerPropagates(close) == IF close = "error" THEN "raise" ELSE "return"

\* lines 259-272: except Exception: pass around the closing click, then return
CloseHandler(close) == "return"

\* lines 251-274: the Booster completion screen; an exception that leaves the
\* branch is dropped by the except of line 273 and the slice goes on
FinishedCheck ==
    /\ pc = "finished_check"
    /\ IF ~booster
       THEN Goto("popup_check", "none", <<>>) /\ UNCHANGED waitVars
       ELSE \E seen \in {"absent", "error", "present"} :
              IF seen # "present"
              THEN Goto("popup_check", "none", <<>>) /\ UNCHANGED waitVars
              ELSE \E close \in {"clicked", "none", "error"} :
                     IF CloseHandler(close) = "raise"
                     THEN /\ Goto("popup_check", "none", <<BoosterFinished>>)
                          /\ UNCHANGED waitVars
                     ELSE /\ RestoreTimeout
                          /\ IF close = "clicked"
                             THEN End("Completed", "", "click",
                                      <<BoosterFinished,
                                        "ACTION Clicked final 'Next' button", Finished>>)
                             ELSE End("Completed", "", "none",
                                      <<BoosterFinished, Finished>>)
    /\ UNCHANGED <<envVars, cycleVars, cycles>>

\* lines 276-279 and 296-297: the popup overlays found in this slice
PopupCheck ==
    /\ pc = "popup_check"
    /\ IF ~booster
       THEN Goto("scrape", "none", <<>>) /\ UNCHANGED popups_left
       ELSE \E n \in 0..MaxPopups :
              /\ popups_left' = n
              /\ Goto(IF n = 0 THEN "scrape" ELSE "popup_visit", "none", <<>>)
    /\ UNCHANGED <<envVars, waitVars, cycles>>
    /\ UNCHANGED <<option_elements, answer_letter, chosen_element, action_text>>

\* the statement the for loop over popup_els reaches after one popup
AfterPopup(left) == IF left = 0 THEN "scrape" ELSE "popup_visit"

\* lines 280-297: one iteration of the for loop over popup_els
PopupVisit ==
    /\ pc = "popup_visit"
    /\ \E r \in {"hidden", "no_button", "clicked", "click_error", "display_error"} :
         IF r = "display_error"
         THEN popups_left' = 0 /\ Goto("scrape", "none", <<>>)
         ELSE /\ popups_left' = popups_left - 1
              /\ IF r = "clicked"
                 THEN Goto(AfterPopup(popups_left'), "click",
                           <<"INFO Booster Mode: Popup detected.",
                             "ACTION Booster Mode: Clicked popup button (Continue)">>)
                 ELSE IF r = "click_error"
                 THEN Goto(AfterPopup(popups_left'), "none",
                           <<"INFO Booster Mode: Popup detected.">>)
                 ELSE Goto(AfterPopup(popups_left'), "none", <<>>)
    /\ UNCHANGED <<envVars, waitVars, cycles>>
    /\ UNCHANGED <<option_elements, answer_letter, chosen_element, action_text>>

\* a slice that consumes nothing of the budget
WaitedUnchanged(waited) == waited

\* lines 304-307: total_waited += per_attempt_timeout
WaitedAfterTimeout(waited) == waited + PerAttemptTimeout

\* except clauses that retry on whatever is not a WebDriverException
ScrapeHandlerRetriesOther(exc) ==
    IF exc = "Timeout" THEN "retry"
    ELSE IF IsWebDriverException(exc)
         THEN IF IsDisconnection(exc) THEN "Disconnected" ELSE "Failed"
         ELSE "retry"

\* lines 304-320: the except clauses around scrape_quiz_data, in their order
ScrapeHandler(exc) ==
    IF exc = "Timeout" THEN "retry"
    ELSE IF IsWebDriverException(exc)
         THEN IF IsDisconnection(exc) THEN "Disconnected" ELSE "Failed"
         ELSE "Failed"

\* the pages a run is checked against: those whose readable supported labels
\* are A and B; the mappings over the whole alphabet are those of SpecChoose
\* and SpecScrape
RunPages ==
    {p \in Pages :
        \A i \in 1..Len(p.cards) :
            p.cards[i].label \in {<<"A">>, <<"b">>, <<"x">>, <<>>, <<"C">>}}

\* lines 299-320: one scrape attempt of the slice
Scrape ==
    /\ pc = "scrape"
    /\ \E page \in RunPages :
         LET r == scrape_quiz_data(page)
             h == ScrapeHandler(r.exc)
         IN IF r.exc = ""
            THEN /\ option_elements' = r.option_elements
                 /\ RestoreTimeout
                 /\ Goto("solve", "scraped", <<>>)
            ELSE IF h = "retry"
            THEN /\ total_waited' = WaitedAfterTimeout(total_waited)
                 /\ UNCHANGED <<cfg_timeout, original_timeout, option_elements>>
                 /\ Goto("slice_top", "scrape", <<>>)
            ELSE /\ RestoreTimeout
                 /\ UNCHANGED option_elements
                 /\ IF h = "Disconnected"
                    THEN End("Disconnected", r.exc, "scrape",
                             <<"INFO Browser disconnected. Stopping automation.", Finished>>)
                    ELSE End("Failed", r.exc, "scrape",
                             <<"ERROR error while scraping quiz data", Finished>>)
    /\ UNCHANGED <<envVars, cycles>>
    /\ UNCHANGED <<answer_letter, chosen_element, action_text, popups_left>>

\* lines 335-345: the Selector call
Solve ==
    /\ pc = "solve"
    /\ \E o \in SvcOutcomes, t \in SampleTexts :
         LET r == get_answer(o, t)
         IN IF r.kind = "raise"
            THEN /\ End("Failed", "ResponseText", "solve",
                        <<"ERROR Error while obtaining answer from Gemini", Finished>>)
                 /\ UNCHANGED answer_letter
            ELSE /\ answer_letter' = r.label
                 /\ Goto("choose", "solve", <<"SOLVER Gemini selected answer option">>)
    /\ UNCHANGED <<envVars, waitVars, cycles>>
    /\ UNCHANGED <<option_elements, chosen_element, action_text, popups_left>>

\* a fallback that takes the last item of the mapping
LastItem(keys) == keys[Len(keys)]

\* next(iter(option_elements.items())): the first item in insertion order
FirstItem(keys) == keys[1]

\* lines 357-360: the line that names the substitution, with the two labels it
\* interpolates
FallbackLine(desired, fallback_label) ==
    <<"INFO Desired option not found. Falling back to option", desired, fallback_label>>

\* lines 347-366: option_elements.get(answer_letter), else the first item
Choose ==
    /\ pc = "choose"
    /\ IF \E i \in 1..Len(option_elements) : option_elements[i] = answer_letter
       THEN chosen_element' = answer_letter /\ Goto("wait_clickable", "none", <<>>)
       ELSE IF option_elements # <<>>
            THEN /\ chosen_element' = FirstItem(option_elements)
                 /\ Goto("wait_clickable", "none",
                         FallbackLine(answer_letter, FirstItem(option_elements)))
            ELSE /\ UNCHANGED chosen_element
                 /\ End("Failed", "", "none",
                        <<"ERROR No option elements available to click", Finished>>)
    /\ UNCHANGED <<envVars, waitVars, cycles>>
    /\ UNCHANGED <<option_elements, answer_letter, action_text, popups_left>>

\* lines 368-386: the except clauses around the wait for the chosen option
WaitClickableHandler(exc) ==
    IF exc = "Timeout" THEN "Failed"
    ELSE IF exc = "Stale" THEN "restart"
    ELSE "Failed"

WaitClickable ==
    /\ pc = "wait_clickable"
    /\ \E r \in {"ok", "Timeout", "Stale", "Disconnected", "WebDriver"} :
         IF r = "ok" THEN Goto("click_option", "none", <<>>)
         ELSE IF WaitClickableHandler(r) = "restart"
              THEN Restart(<<"WARN Option element became stale">>)
              ELSE End("Failed", r, "none",
                       <<"ERROR waiting for option to be clickable", Finished>>)
    /\ UNCHANGED <<envVars, waitVars, cycleVars, cycles>>

\* what execute_script("arguments[0].click();", el) can do after el.click()
\* raised: a stale element or a lost session stays so, and an element that
\* could not be clicked may have gone stale in the meantime
JsClick(first) ==
    IF first \in {"Stale", "Disconnected"} THEN {first} ELSE {"ok", "WebDriver", "Stale"}

\* a handler of the failed script click that logs and goes on to the action
\* control
OptionClickFailedPasses == "pass"

\* lines 399-403: the handler of the failed script click logs and leaves the
\* loop
OptionClickFailed == "break"

\* lines 388-403: click the chosen option
ClickOption ==
    /\ pc = "click_option"
    /\ \E r \in {"ok", "Stale", "Disconnected", "WebDriver"} :
         IF r = "ok" THEN Goto("action", "option_click", <<>>)
         ELSE IF r = "Stale"
              THEN Restart(<<"WARN Option element became stale during click">>)
              ELSE \E js \in JsClick(r) :
                     IF js = "ok" THEN Goto("action", "option_click", <<>>)
                     ELSE IF OptionClickFailed = "pass"
                     THEN Goto("action", "none",
                               <<"ERROR Failed to click chosen option element">>)
                     ELSE End("Failed", js, "none",
                              <<"ERROR Failed to click chosen option element", Finished>>)
    /\ UNCHANGED <<envVars, waitVars, cycleVars, cycles>>

\* lines 408-411: is_booster, read from the configuration at this point
ActionResolve ==
    /\ pc = "action"
    /\ Goto(IF booster THEN "b_wait" ELSE "s_wait_button", "none", <<>>)
    /\ UNCHANGED <<envVars, waitVars, cycleVars, cycles>>

\* lines 450-459: the except clauses of the Booster branch
BoosterHandler(exc) ==
    IF exc = "Timeout"
    THEN "ERROR Booster Mode: Timed out waiting for action button"
    ELSE "ERROR Booster Mode: Error clicking action button"

\* a Booster branch that goes on to the click once the control is present
ButtonReadyPresentOnly(present, enabled) == present = "ok"

\* lines 415-427: both wait.until calls returned
ButtonReady(present, enabled) == present = "ok" /\ enabled = "ok"

\* lines 413-427: wait for the action button to be present, then enabled
BoosterWait ==
    /\ pc = "b_wait"
    /\ \E present \in {"ok", "Timeout", "Disconnected"},
          enabled \in {"ok", "Timeout", "Stale", "Disconnected"} :
         IF present # "ok"
         THEN End("Failed", present, IF present = "Timeout" THEN "button_absent" ELSE "none",
                  <<BoosterHandler(present), Finished>>)
         ELSE IF ~ButtonReady(present, enabled)
              THEN End("Failed", enabled,
                       IF enabled = "Timeout" THEN "button_disabled" ELSE "none",
                       <<BoosterHandler(enabled), Finished>>)
              ELSE Goto("b_click",
                        IF enabled = "ok" THEN "button_enabled"
                        ELSE IF enabled = "Timeout" THEN "button_disabled" ELSE "none",
                        <<>>)
    /\ UNCHANGED <<envVars, waitVars, cycleVars, cycles>>

\* lines 429-437: click the action button
BoosterClick ==
    /\ pc = "b_click"
    /\ \E r \in {"ok", "Stale", "Disconnected", "WebDriver"} :
         IF r = "ok"
         THEN Goto("b_settle", "action_click",
                   <<"ACTION Booster Mode: Clicked Next/Submit button.">>)
         ELSE End("Failed", r, "none", <<BoosterHandler(r), Finished>>)
    /\ UNCHANGED <<envVars, waitVars, cycleVars, cycles>>

\* lines 439-448: wait for the old question to go stale, then loop
BoosterSettle ==
    /\ pc = "b_settle"
    /\ \E r \in {"ok", "Timeout", "Disconnected"} :
         IF r = "Disconnected"
         THEN End("Failed", r, "none", <<BoosterHandler(r), Finished>>)
         ELSE Goto("loop_top", "none", <<>>)
    /\ UNCHANGED <<envVars, waitVars, cycleVars, cycles>>

\* lines 463-478: locate the action button
StandardWaitButton ==
    /\ pc = "s_wait_button"
    /\ \E r \in {"ok", "Timeout", "Disconnected", "WebDriver"} :
         IF r = "ok" THEN Goto("s_read_text", "none", <<>>)
         ELSE IF r = "Timeout"
              THEN End("Failed", r, "none",
                       <<"ERROR Could not find the action button", Finished>>)
              ELSE End("Failed", r, "none",
                       <<"ERROR WebDriver error while locating action button", Finished>>)
    /\ UNCHANGED <<envVars, waitVars, cycleVars, cycles>>

\* lines 480-484, 522, 581: action_button.text against the configured labels; an
\* exception here is caught by the outer except (lines 614-617)
StandardReadText ==
    /\ pc = "s_read_text"
    /\ \E r \in {"next", "submit", "other", "Stale", "Disconnected"} :
         IF r \in {"Stale", "Disconnected"}
         THEN /\ End("Failed", r, "none",
                     <<"ERROR Unexpected exception in automation loop", Finished>>)
              /\ UNCHANGED action_text
         ELSE /\ action_text' = r
              /\ Goto("s_click", "none", <<"ACTION Action button text">>)
    /\ UNCHANGED <<envVars, waitVars, cycles>>
    /\ UNCHANGED <<option_elements, answer_letter, chosen_element, popups_left>>

\* the line the branch logs before it clicks
BeforeClickLine(text) ==
    IF text = "submit" THEN <<"ACTION Submit button detected. Submitting quiz...">>
    ELSE IF text = "other" THEN <<"INFO Unrecognized action button text">>
    ELSE <<>>

\* a branch that leaves the loop after the click of a control it does not know
AfterActionClickStrict(text) ==
    IF text = "submit" THEN "s_confirm"
    ELSE IF text = "next" THEN "s_stop_check"
    ELSE "done"

\* lines 498-519, 540 and 599-608: what follows the click in each branch: the
\* confirmation for a submission, else the settle delay and the stop check
AfterActionClick(text) == IF text = "submit" THEN "s_confirm" ELSE "s_stop_check"

\* lines 485-496, 527-538, 586-597: click the action button, by script if it raises
StandardClick ==
    /\ pc = "s_click"
    /\ \E r \in {"ok", "Stale", "Disconnected", "WebDriver"} :
         \E js \in IF r = "ok" THEN {"ok"} ELSE JsClick(r) :
            IF js = "ok"
            THEN Goto(AfterActionClick(action_text),
                      "action_click", BeforeClickLine(action_text))
            ELSE End("Failed", js, "none",
                     BeforeClickLine(action_text)
                         \o <<"ERROR Failed to click action button", Finished>>)
    /\ UNCHANGED <<envVars, waitVars, cycleVars, cycles>>

\* lines 498-519 and 599-608: the settle delay, the stealth pause, the stop check
StandardStopCheck ==
    /\ pc = "s_stop_check"
    /\ IF IsSet
       THEN EndStopped("after_action", <<"INFO Stop signal received.", Finished>>)
       ELSE Goto("loop_top", "none", <<>>)
    /\ UNCHANGED <<envVars, waitVars, cycleVars, cycles>>

\* a confirmation step whose handlers catch the timeout only
ConfirmHandlerTimeoutOnly(exc) ==
    IF exc = "Timeout" THEN "ERROR Confirmation popup did not appear in time."
    ELSE "raise"

\* lines 564-575: the except clauses around the confirmation, in their order
ConfirmHandler(exc) ==
    IF exc = "Timeout" THEN "ERROR Confirmation popup did not appear in time."
    ELSE IF IsWebDriverException(exc)
         THEN "ERROR WebDriver error during submission confirmation"
         ELSE "ERROR Error while clicking final YES button"

\* the confirmation failed with exc: the handler's line, then break (line 578)
ConfirmFailed(exc) ==
    IF ConfirmHandler(exc) = "raise"
    THEN End("Failed", exc, "none",
             <<"ERROR Unexpected exception in automation loop", Finished>>)
    ELSE End("Completed", exc, "none", <<ConfirmHandler(exc), Finished>>)

\* lines 540-578: the confirmation overlay; the run ends whatever happens
StandardConfirm ==
    /\ pc = "s_confirm"
    /\ \E overlay \in {"ok", "Timeout", "Disconnected"},
          yes \in {"ok", "Timeout", "Disconnected"},
          js \in {"ok", "WebDriver"},
          direct \in {"ok", "WebDriver"} :
         IF overlay # "ok" THEN ConfirmFailed(overlay)
         ELSE IF yes # "ok" THEN ConfirmFailed(yes)
         ELSE IF js = "ok" \/ direct = "ok"
         THEN End("Completed", "", "confirm_click",
                  <<"INFO Quiz submitted successfully.", Finished>>)
         ELSE ConfirmFailed(direct)
    /\ UNCHANGED <<envVars, waitVars, cycleVars, cycles>>

\* Api.stop_automation, seen from the run: its event becomes set
SetStop ==
    /\ pc \notin {"idle", "done"}
    /\ ~stop_flag
    /\ stop_flag' = TRUE
    /\ clicks_after_stop' = 0
    /\ UNCHANGED <<pc, booster, is_booster_enabled, waitVars, cycleVars, outcome,
                   last_exc, cycles, observed, acts_after_observe, emitted, final_lines,
                   api_key, cycle_acts, button_seen, handles>>
    /\ UNCHANGED <<shellVars, solverVars, scrapeVars>>

\* reload(config) by the shell (load_settings, a later start) while the run is
\* alive: the module's settings are set anew
ReloadConfig ==
    /\ pc \notin {"idle", "done"}
    /\ \E b \in BOOLEAN : booster' = b
    /\ cfg_timeout' = MaxWait
    /\ UNCHANGED <<pc, stop_flag, is_booster_enabled, original_timeout, total_waited,
                   cycleVars, outcome, last_exc, cycles, observed, acts_after_observe,
                   clicks_after_stop, emitted, final_lines, api_key, cycle_acts,
                   button_seen, handles>>
    /\ UNCHANGED <<shellVars, solverVars, scrapeVars>>

\* the steps of the run itself
RunStep ==
    \/ RunStart
    \/ LoopTop
    \/ SliceTop
    \/ FinishedCheck
    \/ PopupCheck
    \/ PopupVisit
    \/ Scrape
    \/ Solve
    \/ Choose
    \/ WaitClickable
    \/ ClickOption
    \/ ActionResolve
    \/ BoosterWait
    \/ BoosterClick
    \/ BoosterSettle
    \/ StandardWaitButton
    \/ StandardReadText
    \/ StandardClick
    \/ StandardStopCheck
    \/ StandardConfirm

InitRun ==
    /\ NoRunYet /\ SolverIdle /\ ScrapeIdle
    /\ driver \in {"none", "live"}
    /\ chromes = IF driver = "live" THEN 1 ELSE 0
    /\ pc = "start"
    /\ stop_flag = FALSE
    /\ booster \in BOOLEAN
    /\ is_booster_enabled = FALSE
    /\ cfg_timeout = MaxWait
    /\ original_timeout = 0
    /\ total_waited = 0
    /\ option_elements = <<>>
    /\ answer_letter = ""
    /\ chosen_element = ""
    /\ popups_left = 0
    /\ outcome = ""
    /\ last_exc = ""
    /\ cycles = 0
    /\ observed = ""
    /\ acts_after_observe = 0
    /\ clicks_after_stop = 0
    /\ action_text = ""
    /\ emitted = <<>>
    /\ final_lines = 0
    /\ api_key \in ApiKeys
    /\ cycle_acts = <<>>
    /\ button_seen = ""
    /\ handles = "none"

NextRun ==
    \/ RunStart
    \/ LoopTop
    \/ SliceTop
    \/ FinishedCheck
    \/ PopupCheck
    \/ PopupVisit
    \/ Scrape
    \/ Solve
    \/ Choose
    \/ WaitClickable
    \/ ClickOption
    \/ ActionResolve
    \/ BoosterWait
    \/ BoosterClick
    \/ BoosterSettle
    \/ StandardWaitButton
    \/ StandardReadText
    \/ StandardClick
    \/ StandardStopCheck
    \/ StandardConfirm
    \/ SetStop
    \/ ReloadConfig

SpecRun == InitRun /\ [][NextRun]_vars

\* the worker thread keeps running: every step of the run that can be taken is
\* taken (every driver wait and every Selector call returns)
FairSpecRun == SpecRun /\ WF_vars(RunStep)

-----------------------------------------------------------------------------
(* main.py lines 347-403 on their own: the choice of the option to click as *)
(* a function of the payload's option_elements and of the Selector's label  *)

\* the option-handle mappings: labels of the alphabet, none twice, in any
\* order; the empty one is what the branch of lines 361-366 guards against
Mappings ==
    {m \in SeqsUpTo(MaxCards) :
        /\ \A i \in 1..Len(m) : m[i] \in SUPPORTED_OPTION_LABELS
        /\ \A i, j \in 1..Len(m) : m[i] = m[j] => i = j}

InitChoose ==
    /\ NoRunYet /\ SolverIdle /\ ScrapeIdle
    /\ driver = "live"
    /\ chromes = 1
    /\ pc = "choose"
    /\ stop_flag = FALSE
    /\ booster \in BOOLEAN
    /\ is_booster_enabled = booster
    /\ cfg_timeout = MaxWait
    /\ original_timeout = MaxWait
    /\ total_waited = 0
    /\ option_elements \in Mappings
    /\ answer_letter \in Alphabet
    /\ chosen_element = ""
    /\ popups_left = 0
    /\ outcome = ""
    /\ last_exc = ""
    /\ cycles = 1
    /\ observed = ""
    /\ acts_after_observe = 0
    /\ clicks_after_stop = 0
    /\ action_text = ""
    /\ emitted = <<>>
    /\ final_lines = 0
    /\ api_key = "key"
    /\ cycle_acts = <<"scraped", "solve">>
    /\ button_seen = ""
    /\ handles = "fresh"

NextChoose ==
    \/ Choose
    \/ WaitClickable
    \/ ClickOption

SpecChoose == InitChoose /\ [][NextChoose]_vars

-----------------------------------------------------------------------------
(* Properties *)

\* C1: at most one automation run (a worker inside run_solver_loop) is active
\* at any time, whatever the interleaving of start, stop and toggle requests
C1_AtMostOneActiveRun == Cardinality({w \in WorkerIds : InRun(w)}) <= 1

\* C2: a checkpoint at the start of a cycle or of a wait slice that finds the
\* signal set ends the run as StoppedByUser in that step, with no scrape, no
\* Selector call and no click; once a checkpoint has observed the signal the
\* run has ended and has done nothing since
C2_CheckpointEndsRun ==
    /\ [][(/\ stop_flag
           /\ \/ pc = "loop_top"
              \/ pc = "slice_top" /\ total_waited < original_timeout
           /\ pc' # pc)
             => (/\ pc' = "done"
                 /\ outcome' = "StoppedByUser"
                 /\ clicks_after_stop' = clicks_after_stop)]_vars
    /\ [](observed # "" =>
             pc = "done" /\ outcome = "StoppedByUser" /\ acts_after_observe = 0)

\* C2 witness: a run that began a cycle and was stopped by the check of a wait slice
C2_StoppedInSlice ==
    pc = "done" /\ outcome = "StoppedByUser" /\ observed = "slice_top" /\ cycles >= 1

\* C3: after the signal becomes set the run performs at most one more click
C3_AtMostOneClickAfterStop == clicks_after_stop <= 1

\* C4: once the signal is set the run eventually ends, provided every step of
\* the run returns
C4_StopLeadsToEnd == stop_flag ~> (pc = "done")

\* C4 witness: the signal was set during a cycle, and the run came back to the
\* top of the loop (a staleness restart or the next cycle) and ended there
C4_StoppedAtLoopTop ==
    pc = "done" /\ stop_flag /\ observed = "loop_top" /\ cycles >= 1

\* C5: the event a stop set while worker w was the active run is the event
\* that w's run_solver_loop call polls
C5_StopReachesItsRun ==
    \A w \in WorkerIds :
        (stop_target[w] # 0 /\ InRun(w)) => workers[w].ev = stop_target[w]

\* C6: every label get_answer returns is a member of the alphabet {A, B, C, D}
C6_LabelInAlphabet == ga_result.kind = "return" => ga_result.label \in Alphabet

\* C6 witness: a response with no alphabet letter at all was answered
C6_NoLetterAnswered ==
    svc = "ok" /\ raw_text = <<"x", ".">> /\ ga_result.kind = "return"

\* C7: no failure of the service call or of reading the response's text ends the run
C7_SelectorFailureAbsorbed == ~(pc = "done" /\ last_exc = "ResponseText")

\* position i of u holds an alphabet letter with no word character on either side
Standalone(u, i) ==
    /\ u[i] \in Alphabet
    /\ i = 1 \/ ~IsWordChar(u[i - 1])
    /\ i = Len(u) \/ ~IsWordChar(u[i + 1])

Least(S) == CHOOSE i \in S : \A j \in S : i <= j

\* C8: on the uppercased response the first standalone alphabet letter wins,
\* else the first alphabet letter anywhere, else 'A'; " b " between white space
\* gives 'B'
C8_ParsePriority ==
    (svc = "ok" /\ ga_result.kind # "none") =>
        LET u == Upper(raw_text)
            tokens == {i \in 1..Len(u) : Standalone(u, i)}
            letters == {i \in 1..Len(u) : u[i] \in Alphabet}
        IN /\ ga_result.kind = "return"
           /\ ga_result.label = IF tokens # {} THEN u[Least(tokens)]
                                 ELSE IF letters # {} THEN u[Least(letters)]
                                 ELSE "A"
           /\ raw_text = ScenarioAText => ga_result.label = "B"

\* C8 witness: an alphabet letter inside a word comes before a standalone one
C8_TokenBeatsEarlierLetter ==
    raw_text = <<"A", "B", " ", "C">> /\ ga_result = [kind |-> "return", label |-> "C"]

\* C9: between the start of one get_answer call and the request of the next
\* lies at least rate_limit_interval, whether the first request succeeded or failed
C9_RateLimitHolds ==
    \A i \in 2..Len(calls) : calls[i].issue - calls[i - 1].start >= RateLimitInterval

\* C10: a stale element reference never ends a run as Failed or Disconnected
C10_StaleNeverFatal ==
    ~(pc = "done" /\ last_exc = "Stale" /\ outcome \in {"Failed", "Disconnected"})

\* C11: a step that waits for the chosen option or clicks it and meets a
\* staleness error does not end the run and clicks nothing: the cycle is
\* abandoned and the run is back at the top of the loop, before the wait for
\* the question
C11_StaleOptionRestarts ==
    [][(pc \in {"wait_clickable", "click_option"} /\ last_exc' = "Stale")
          => (/\ pc' = "loop_top"
              /\ outcome' = ""
              /\ clicks_after_stop' = clicks_after_stop)]_vars

C13_CompletionScreenFirst ==
    /\ [][(pc' # pc /\ pc' = "finished_check") => pc = "slice_top"]_vars
    /\ [][(pc' # pc /\ pc' = "popup_check") => pc = "finished_check"]_vars
    /\ [][(pc' # pc /\ pc' = "scrape") => pc \in {"popup_check", "popup_visit"}]_vars
    /\ [][(pc = "finished_check" /\ emitted' # <<>> /\ emitted'[1] = BoosterFinished)
             => (/\ booster
                 /\ pc' = "done" /\ outcome' = "Completed"
                 /\ option_elements' = <<>> /\ answer_letter' = "")]_vars

\* C13 witness: the completion screen was found in a later slice of a cycle
\* and the closing control was not clicked
C13_CompletedNoClose ==
    /\ pc = "done" /\ outcome = "Completed" /\ booster
    /\ emitted = <<BoosterFinished, Finished>>
    /\ total_waited >= 1

\* C14: when the Selector's label has no handle in a non-empty mapping the
\* option chosen, waited for and clicked is the first one of the mapping in
\* its iteration order, and a line naming both labels is logged; when the
\* mapping is empty the run ends as Failed in that step; the mapping
\* {A: h1, C: h3} with label B gives A
C14_FallbackFirstOption ==
    /\ [][(/\ pc = "choose" /\ pc' # pc
           /\ \A i \in 1..Len(option_elements) : option_elements[i] # answer_letter)
             => (IF option_elements # <<>>
                 THEN /\ pc' = "wait_clickable"
                      /\ chosen_element' = option_elements[1]
                      /\ emitted' = FallbackLine(answer_letter, option_elements[1])
                      /\ (option_elements = <<"A", "C">> /\ answer_letter = "B")
                             => chosen_element' = "A"
                 ELSE pc' = "done" /\ outcome' = "Failed" /\ chosen_element' = "")]_vars
    /\ [][(pc \in {"wait_clickable", "click_option"})
             => (chosen_element' = chosen_element)]_vars

\* C14 witness: the mapping {A, C} with label B: option A was substituted and
\* clicked
C14_ScenarioC ==
    /\ pc = "action"
    /\ option_elements = <<"A", "C">> /\ answer_letter = "B" /\ chosen_element = "A"

\* C15: every payload a successful scrape_quiz_data returns has a non-empty
\* option mapping whose keys are labels of the alphabet {A, B, C, D}, none
\* twice, each the stripped and upper-cased label text of a card of the page
C15_KeysInAlphabet ==
    sq_result.exc = "" =>
        LET keys == sq_result.option_elements
        IN /\ keys # <<>>
           /\ \A i \in 1..Len(keys) :
                 /\ keys[i] \in Alphabet
                 /\ \A j \in 1..Len(keys) : keys[i] = keys[j] => i = j
                 /\ \E c \in 1..Len(sq_page.cards) :
                       /\ sq_page.cards[c].find = "ok"
                       /\ NormLabel(sq_page.cards[c].label) = <<keys[i]>>

\* C15 witness: a page whose two cards carry the same lower-case label gave
\* the single key B
C15_LowerCaseDuplicate ==
    /\ sq_result = [exc |-> "", option_elements |-> <<"B">>]
    /\ Len(sq_page.cards) = 2
    /\ sq_page.cards[1].label = <<"b">> /\ sq_page.cards[2].label = <<"b">>

\* C16: _extract_element_content lets no exception through to its caller:
\* whatever fails on the element, a stale element included, it returns a
\* sequence of parts
C16_ExtractorNeverRaises == ex_el # "none" => ex_result.exc = ""

\* C17: a run that ended on a driver-level disconnection, at whatever step it
\* met it, ended with outcome Disconnected
C17_DisconnectionClassified ==
    (pc = "done" /\ IsDisconnection(last_exc)) => outcome = "Disconnected"

\* C18: the mode a run acts in is the mode it read when it started: it takes
\* the Booster steps (popup handling, the Booster action branch) only if it
\* started in Booster mode and the Standard action branch only if it started
\* in Standard mode, whatever reloads of the configuration happen meanwhile
C18_ModeFixed ==
    /\ pc \in {"popup_visit", "b_wait", "b_click", "b_settle"} => is_booster_enabled
    /\ pc \in {"s_wait_button", "s_read_text", "s_click", "s_stop_check", "s_confirm"}
          => ~is_booster_enabled

\* C19: a run that has ended, by whatever exit, has put the final line
\* "Automation loop finished." on the log exactly once, as its last line
C19_OneTerminalLine ==
    pc = "done" =>
        /\ final_lines = 1
        /\ emitted # <<>>
        /\ emitted[Len(emitted)] = Finished

\* C20: in the wait phase a scrape that times out is not an error: nothing
\* is logged, the run goes on with the next slice and the slice has consumed
\* one attempt of the budget; a slice begins only while budget is left, so
\* the slices of a wait phase are at most the budget and the phase always
\* ends; when the budget is exhausted the run ends as Failed with one error line
C20_WaitPhaseBounded ==
    /\ [][(pc = "scrape" /\ pc' = "slice_top")
             => (/\ total_waited' = total_waited + PerAttemptTimeout
                 /\ outcome' = "" /\ emitted' = <<>>)]_vars
    /\ [][(pc' # pc /\ pc' = "slice_top") => pc \in {"loop_top", "scrape"}]_vars
    /\ [][(pc = "slice_top" /\ pc' # pc)
             => IF total_waited < original_timeout
                THEN pc' = "finished_check" \/ outcome' = "StoppedByUser"
                ELSE (/\ pc' = "done" /\ outcome' = "Failed"
                      /\ emitted' = <<BudgetExhausted, Finished>>)]_vars
    /\ [](pc \in WaitPhase =>
             (total_waited <= original_timeout /\ original_timeout <= MaxWait))
    /\ (pc \in WaitPhase) ~> (pc \notin WaitPhase)

\* C20 witness: every slice of a wait phase timed out and the run ended on
\* the exhausted budget
C20_BudgetExhausted ==
    /\ pc = "done" /\ outcome = "Failed"
    /\ emitted = <<BudgetExhausted, Finished>>
    /\ total_waited = MaxWait

\* C21: no event, once set, is cleared, and every run polls the event that
\* its own start request created: the n-th run polls the n-th event and no
\* other run's
C21_FreshSignalPerRun ==
    /\ [][events_set \subseteq events_set']_vars
    /\ [](\A w \in WorkerIds : InRun(w) => workers[w].ev = w)

\* C22: once the current worker has ended with is_running still true, the
\* heartbeat eventually sets is_running to false, and the heartbeat never
\* sets is_running to false while the current worker is alive
C22_HeartbeatResetsRunning ==
    /\ (is_running /\ worker_thread # 0 /\ ~IsAlive(worker_thread)) ~> ~is_running
    /\ [][(hb = "reset" /\ hb' = "browser" /\ is_running /\ ~is_running')
            => (worker_thread = 0 \/ ~IsAlive(worker_thread))]_vars

\* C30: the heartbeat reads driver.title only while no worker is between two
\* checkpoints of its run, where the cycle's clicks happen
C30_ProbeOnlyWhenIdle ==
    [][(hb = "browser" /\ hb' = "idle" /\ Probes)
        => (\A w \in WorkerIds : workers[w].phase # "cycle")]_vars

\* C23: a call of run_solver_loop with no driver (None), or with the API key
\* unset or the placeholder, ends in its first step: it puts one error line
\* on the queue and returns, having begun no cycle, scraped nothing, called
\* no Selector and clicked nothing, and the controller's driver is what it
\* was; nothing follows the return
C23_PreconditionFailureReturns ==
    /\ [][(pc = "start" /\ pc' # pc
            /\ (driver = "none" \/ api_key \in {"", "YOUR_API_KEY_HERE"}))
           => (/\ pc' = "done"
               /\ outcome' = "Failed"
               /\ emitted' \in {<<"ERROR API key is not set">>,
                                <<"ERROR Browser has not been launched">>}
               /\ driver' = driver
               /\ cycles' = 0
               /\ cycle_acts' = <<>>
               /\ acts_after_observe' = 0
               /\ clicks_after_stop' = 0)]_vars
    /\ [][(pc = "done")
           => (pc' = "done" /\ cycles' = cycles /\ cycle_acts' = cycle_acts
               /\ emitted' = emitted /\ driver' = driver)]_vars

\* C23 witness: a run called with a key but without a driver has returned
C23_NoDriverReturned ==
    /\ pc = "done"
    /\ driver = "none"
    /\ api_key = "key"
    /\ outcome = "Failed"
    /\ emitted = <<"ERROR Browser has not been launched">>
    /\ cycles = 0

\* C24: the steps of a cycle happen in order and at most once each: the
\* successful scrape, the Selector call, the option click, the click of the
\* action control (then, for a submission, the confirming click); so the
\* action control is clicked only after an option of the same cycle was, and
\* a cycle after the first begins only once the Selector call of the cycle
\* before it has returned
C24_CycleStepsInOrder ==
    /\ [](\E n \in 0..5 :
            cycle_acts = SubSeq(<<"scraped", "solve", "option_click", "action_click",
                                  "confirm_click">>, 1, n))
    /\ [][(cycles' = cycles + 1 /\ cycles > 0) => (Len(cycle_acts) >= 2)]_vars

\* C24 witness: a second cycle has clicked its option and its action control
C24_SecondCycleClicked ==
    /\ cycles = 2
    /\ cycle_acts = <<"scraped", "solve", "option_click", "action_click">>

\* C27: in Booster mode, once the continue control of a visible popup has
\* been clicked, the run goes back to the start of the slice loop; it does
\* not go on to the scrape of that slice
C27_PopupClickRepolls ==
    [][(/\ pc = "popup_visit"
        /\ popups_left' = popups_left - 1
        /\ emitted' = <<"INFO Booster Mode: Popup detected.",
                        "ACTION Booster Mode: Clicked popup button (Continue)">>)
       => (pc' = "slice_top")]_vars

\* C28: the labels of the mappings scrape_quiz_data returns iterate in the
\* order A, B, C, D, whatever the order of the cards in the DOM
C28_MappingInAlphabetOrder ==
    LET Rank(l) == CHOOSE n \in 1..4 : <<"A", "B", "C", "D">>[n] = l
        keys == sq_result.option_elements
    IN sq_result.exc = "" =>
         \A i, j \in 1..Len(keys) : i < j => Rank(keys[i]) < Rank(keys[j])

\* C29: on a page that shows the question and option cards none of which
\* carries a valid label, the scrape raises RuntimeError and the handlers of
\* the wait phase end the run; the run that meets it ends Failed in that step,
\* with no further slice and no Selector call
C29_NoValidLabelFails ==
    /\ [](pc = "scrape" =>
            \A page \in RunPages :
               (/\ page.question = "visible"
                /\ _extract_element_content(page.q_el).exc = ""
                /\ page.cards # <<>>
                /\ \A i \in 1..Len(page.cards) :
                      \/ page.cards[i].find # "ok"
                      \/ Len(NormLabel(page.cards[i].label)) # 1
                      \/ NormLabel(page.cards[i].label)[1] \notin {"A", "B", "C", "D"})
               => (/\ scrape_quiz_data(page).exc = "RuntimeError"
                   /\ ScrapeHandler(scrape_quiz_data(page).exc) = "Failed"))
    /\ [][(pc = "scrape" /\ last_exc' = "RuntimeError")
           => (/\ pc' = "done"
               /\ outcome' = "Failed"
               /\ emitted' = <<"ERROR error while scraping quiz data", Finished>>
               /\ cycle_acts' = <<>>
               /\ answer_letter' = "")]_vars
    /\ [][(pc = "done") => (pc' = "done" /\ cycle_acts' = cycle_acts)]_vars

\* C29 witness: a run has ended on the RuntimeError of a scrape, in its
\* second slice
C29_EndedOnNoValidLabel ==
    /\ pc = "done"
    /\ last_exc = "RuntimeError"
    /\ outcome = "Failed"
    /\ total_waited = PerAttemptTimeout
    /\ cycle_acts = <<>>

\* C25: superscript markup becomes a caret-prefixed run and subscript markup
\* an underscore-prefixed run attached to the text around it with no space
\* put in: x<sup>2</sup> yields exactly x^2 and H<sub>2</sub>O exactly H_2O;
\* and the text returned has no white space at either end and no two spaces
\* in a row
C25_MathNotation ==
    /\ (pm_html = <<"x", "<sup>", "2", "</sup>">> /\ pm_result.exc # "none")
         => pm_result = [exc |-> "", text |-> <<"x", "^", "2">>]
    /\ (pm_html = <<"H", "<sub>", "2", "</sub>", "O">> /\ pm_result.exc # "none")
         => pm_result = [exc |-> "", text |-> <<"H", "_", "2", "O">>]
    /\ (pm_result.exc = "" /\ pm_result.text # <<>>)
         => /\ pm_result.text[1] # " "
            /\ pm_result.text[Len(pm_result.text)] # " "
            /\ \A i \in 1..(Len(pm_result.text) - 1) :
                  ~(pm_result.text[i] = " " /\ pm_result.text[i + 1] = " ")

\* C26: normalizing a text that parse_math_expressions returned gives that
\* text back
C26_Idempotent ==
    pm_result.exc = "" => pm_again = pm_result

\* C31: while the worker of a run is alive, nothing but that run takes the
\* browser handle away: no step of close_browser or of the heartbeat sets
\* the controller's driver to None then
C31_HandleOwnedByRun ==
    [][(driver # "none" /\ driver' = "none")
        => (\A w \in WorkerIds : ~IsAlive(w))]_vars

\* C38: whatever the launch and close requests and their order, at most one
\* browser that the controller created is alive, and a launch request made
\* while a launch is still in progress creates no further browser
C38_AtMostOneBrowser ==
    /\ [](chromes <= 1)
    /\ [][(chromes' = chromes + 1) => (chromes = 0 /\ driver # "live")]_vars

\* C32: the Booster branch comes to its click, and clicks the action
\* control, only when the waits of the same cycle have found the control
\* present and then not disabled; a wait that times out, for the control to
\* appear or to be enabled, ends the run Failed in that step with no click
C32_BoosterClickAfterEnabled ==
    /\ [](pc = "b_click" => button_seen = "enabled")
    /\ [][(pc = "b_click" /\ cycle_acts' # cycle_acts)
           => (button_seen = "enabled" /\ cycle_acts[3] = "option_click")]_vars
    /\ [][(pc = "b_wait" /\ button_seen' \in {"absent", "disabled"})
           => (/\ pc' = "done"
               /\ outcome' = "Failed"
               /\ cycle_acts' = cycle_acts
               /\ clicks_after_stop' = clicks_after_stop)]_vars

\* C32 witness: a run has ended because the control stayed disabled
C32_NeverEnabled ==
    /\ pc = "done"
    /\ outcome = "Failed"
    /\ button_seen = "disabled"
    /\ cycle_acts = <<"scraped", "solve", "option_click">>

\* C33: in the Standard branch a control whose text is neither the next nor
\* the submit label is clicked all the same; when the click succeeds the run
\* comes to its stop check, and from there, the signal not being set, to the
\* top of the loop for a new cycle; it does not end
C33_UnknownTextContinues ==
    /\ [][(pc = "s_click" /\ action_text = "other" /\ cycle_acts' # cycle_acts)
           => (/\ pc' = "s_stop_check"
               /\ cycle_acts' = Append(cycle_acts, "action_click")
               /\ emitted' = <<"INFO Unrecognized action button text">>
               /\ outcome' = "")]_vars
    /\ [][(pc = "s_stop_check" /\ action_text = "other" /\ ~stop_flag /\ pc' # pc)
           => (pc' = "loop_top" /\ outcome' = "")]_vars
    /\ [](pc = "s_click" => action_text \in {"next", "submit", "other"})

\* C33 witness: after the click of a control with an unknown text the run is
\* back at the top of its loop, the signal not set
C33_LoopedAfterUnknownText ==
    /\ pc = "loop_top"
    /\ action_text = "other"
    /\ cycle_acts = <<"scraped", "solve", "option_click", "action_click">>
    /\ ~stop_flag
    /\ outcome = ""

\* C34: every step in which the run clicks an option, the action control or
\* the confirmation, and every step in which it meets an exception, puts at
\* least one line on the log queue
C34_EveryClickLogged ==
    [][(\/ /\ cycle_acts' # cycle_acts
           /\ cycle_acts' # <<>>
           /\ IsClick(cycle_acts'[Len(cycle_acts')])
        \/ /\ last_exc' # last_exc
           /\ last_exc' # "")
       => (emitted' # <<>>)]_vars

\* C35: the handle the run waits on or clicks is one of the mapping that the
\* successful scrape of the current cycle returned: that scrape is the first
\* step of the cycle, no staleness has been met on its handles since, and a
\* staleness restart leads to nothing but the top of the loop, where
\* quiz_data is dropped
C35_HandlesCycleScoped ==
    /\ [](pc \in {"wait_clickable", "click_option"}
            => (/\ handles = "fresh"
                /\ cycle_acts = <<"scraped", "solve">>
                /\ \E k \in 1..Len(option_elements) : option_elements[k] = chosen_element))
    /\ [][(cycle_acts' = Append(cycle_acts, "option_click")) => (handles = "fresh")]_vars
    /\ [][(handles' = "stale" /\ handles # "stale") => (pc' = "loop_top")]_vars
    /\ [][(pc = "loop_top" /\ pc' = "slice_top") => (handles' = "none")]_vars

\* C35 witness: the second cycle is about to click a handle of its own scrape
C35_SecondCycleHandle ==
    /\ pc = "click_option"
    /\ cycles = 2
    /\ handles = "fresh"
    /\ chosen_element = "B"

\* C37: the wait phase remembers config.DEFAULT_WAIT_TIMEOUT when it begins
\* and keeps what it remembered; every step that leaves the wait phase, to
\* the Selector call or to the end of the run, sets the timeout back to it;
\* so a run outside its wait phase, ended or not, finds the timeout at the
\* value it had when the wait phase began
C37_TimeoutRestored ==
    /\ [][(pc = "loop_top" /\ pc' = "slice_top")
           => (original_timeout' = cfg_timeout /\ cfg_timeout' = PerAttemptTimeout)]_vars
    /\ [][(pc \in WaitPhase) => (original_timeout' = original_timeout)]_vars
    /\ [][(pc \in WaitPhase /\ pc' \notin WaitPhase)
           => (cfg_timeout' = original_timeout)]_vars
    /\ []((cycles >= 1 /\ pc \notin WaitPhase) => cfg_timeout = original_timeout)

\* C37 witness: a run whose browser went away during a scrape has ended with
\* the timeout back at its value
C37_RestoredAfterDisconnection ==
    /\ pc = "done"
    /\ outcome = "Disconnected"
    /\ cycles = 1
    /\ cfg_timeout = MaxWait
    /\ original_timeout = MaxWait


\* C36: the contents _build_contents returns are, in order, the opening
\* instruction, the part "Question:" and the question's fragments, then for
\* each option label in alphabetical order, whatever the insertion order of the
\* mapping, the part "Option X:" and that option's fragments in their original
\* order, then the closing instruction; an image fragment is passed unchanged
\* as image/png and a text fragment that is empty once stripped is left out.
C36_RequestInOrder ==
    bc_contents # <<"none">> =>
        LET Kept(f) == f.kind = "bytes" \/ \E i \in 1..Len(f.val) : f.val[i] # " "
            Part(f) == IF f.kind = "bytes"
                       THEN [part |-> "blob", mime_type |-> "image/png", data |-> f.val]
                       ELSE [part |-> "str", val |-> Strip(f.val)]
            Segment(label, fs) ==
                LET kept == SelectSeq(fs, Kept)
                IN <<[part |-> "str", val |-> <<label, ":">>]>>
                       \o [i \in 1..Len(kept) |-> Part(kept[i])]
            Option(l) ==
                LET at == {i \in 1..Len(bc_quiz.options) : bc_quiz.options[i].label = l}
                IN IF at = {} THEN <<>>
                   ELSE Segment(<<"Option ", l>>, bc_quiz.options[CHOOSE i \in at : TRUE].value)
        IN bc_contents = <<Opening>> \o Segment(<<"Question">>, bc_quiz.question)
                             \o Option("A") \o Option("B") \o <<Closing>>

\* a request built from a mapping that holds B before A, an image and an empty text
C36_BuiltFromReversedMapping ==
    /\ bc_contents # <<"none">>
    /\ bc_quiz.question = <<[kind |-> "str", val |-> <<>>], [kind |-> "str", val |-> <<" ", "x">>]>>
    /\ bc_quiz.options = <<[label |-> "B", value |-> <<[kind |-> "bytes", val |-> <<"png">>]>>],
                           [label |-> "A", value |-> <<[kind |-> "str", val |-> <<" ", "x">>],
                                                       [kind |-> "bytes", val |-> <<"png">>]>>]>>

=============================================================================
